---- MODULE Spec2Model ----
(***************************************************************************)
(* Model of xline/src/server/xline_server.rs: XlineServer::new (identity   *)
(* derivation, minimum lease TTL, shared components), start and            *)
(* start_from_listener_shutdown (recovery order), init_servers (service    *)
(* composition), Drop (shutdown trigger), together with the index and id   *)
(* barriers the command executor and the key-value handler share.          *)
(***************************************************************************)
EXTENDS Integers, Sequences, FiniteSets, TLC

(***************************************************************************)
(* 64-bit words.  A u64 is kept as four 16-bit limbs, least significant    *)
(* first, so that every intermediate value stays inside TLC's integer      *)
(* range while the arithmetic is exactly that of u64.                      *)
(***************************************************************************)
Limb == 65536

RECURSIVE Pow2(_)
Pow2(n) == IF n = 0 THEN 1 ELSE 2 * Pow2(n - 1)

RECURSIVE XorBits(_, _)
XorBits(a, b) ==
    IF a = 0 THEN b
    ELSE IF b = 0 THEN a
    ELSE 2 * XorBits(a \div 2, b \div 2) + ((a + b) % 2)

\* a ^ b for two 4-bit values, tabulated
XorNibble == [a \in 0..15 |-> [b \in 0..15 |-> XorBits(a, b)]]

\* a ^ b for two 16-bit limbs
XorLimb(a, b) ==
    XorNibble[a % 16][b % 16]
    + 16 * XorNibble[(a \div 16) % 16][(b \div 16) % 16]
    + 256 * XorNibble[(a \div 256) % 16][(b \div 256) % 16]
    + 4096 * XorNibble[a \div 4096][b \div 4096]

Xor64(a, b) ==
    <<XorLimb(a[1], b[1]), XorLimb(a[2], b[2]), XorLimb(a[3], b[3]), XorLimb(a[4], b[4])>>

\* wrapping_add on u64
Add64(a, b) ==
    LET s1 == a[1] + b[1]
        s2 == a[2] + b[2] + (s1 \div Limb)
        s3 == a[3] + b[3] + (s2 \div Limb)
        s4 == a[4] + b[4] + (s3 \div Limb)
    IN  <<s1 % Limb, s2 % Limb, s3 % Limb, s4 % Limb>>

\* rotate_left on u64
Rotl64(a, r) ==
    LET q == r \div 16
        s == r % 16
        L(i) == a[((i - 1 - q) % 4) + 1]
        R(i) == ((L(i) * Pow2(s)) % Limb) + (L(i - 1) \div Pow2(16 - s))
    IN  <<R(1), R(2), R(3), R(4)>>

\* u64::from_le_bytes of at most eight bytes, the missing high bytes zero
Byte(bs, i) == IF i <= Len(bs) THEN bs[i] ELSE 0
WordOfBytes(bs) ==
    <<Byte(bs, 1) + 256 * Byte(bs, 2), Byte(bs, 3) + 256 * Byte(bs, 4),
      Byte(bs, 5) + 256 * Byte(bs, 6), Byte(bs, 7) + 256 * Byte(bs, 8)>>

\* u64::to_ne_bytes on a little-endian target, for a value below 2^31
BytesOfU64(n) ==
    <<n % 256, (n \div 256) % 256, (n \div 65536) % 256, (n \div 16777216) % 256,
      0, 0, 0, 0>>

(***************************************************************************)
(* std::collections::hash_map::DefaultHasher: SipHash-1-3 with the key     *)
(* (0, 0) over the concatenation of everything written to the hasher.      *)
(***************************************************************************)
\* One SipRound, statement by statement as in the compress step of SipHash:
\*   v0 += v1; v2 += v3;  v1 <<<= 13; v3 <<<= 16;  v1 ^= v0; v3 ^= v2;  v0 <<<= 32;
\*   v0 += v3; v2 += v1;  v1 <<<= 17; v3 <<<= 21;  v1 ^= v2; v3 ^= v0;  v2 <<<= 32
SipAddA(v) == <<Add64(v[1], v[2]), v[2], Add64(v[3], v[4]), v[4]>>
SipRotA(v) == <<v[1], Rotl64(v[2], 13), v[3], Rotl64(v[4], 16)>>
SipXorA(v) == <<Rotl64(v[1], 32), Xor64(v[2], v[1]), v[3], Xor64(v[4], v[3])>>
SipAddB(v) == <<Add64(v[1], v[4]), v[2], Add64(v[3], v[2]), v[4]>>
SipRotB(v) == <<v[1], Rotl64(v[2], 17), v[3], Rotl64(v[4], 21)>>
SipXorB(v) == <<v[1], Xor64(v[2], v[3]), Rotl64(v[3], 32), Xor64(v[4], v[1])>>

\* (the state is bound to its value once, through a singleton set, before
\* the six statements are applied to it)
SipRound(v) ==
    CHOOSE r \in {SipXorB(SipRotB(SipAddB(SipXorA(SipRotA(SipAddA(a)))))) : a \in {v}} : TRUE

\* DefaultHasher::new(): the SipHash initial state for k0 = k1 = 0
SipInit ==
    << <<25973, 28787, 28005, 29551>>,
       <<28525, 28260, 29281, 25711>>,
       <<29281, 28261, 26469, 27769>>,
       <<25971, 31092, 25698, 29797>> >>

\* one compression step over the message word m (one c-round):
\* v3 ^= m; SipRound; v0 ^= m
SipCompressIn(v, m) == <<v[1], v[2], v[3], Xor64(v[4], m)>>
SipCompressOut(w, m) == <<Xor64(w[1], m), w[2], w[3], w[4]>>

SipCompress(v, m) ==
    CHOOSE r \in {SipCompressOut(w, m) : w \in {SipRound(SipCompressIn(v, m))}} : TRUE

RECURSIVE SipBlocks(_, _)
SipBlocks(v, bs) ==
    IF Len(bs) < 8 THEN v
    ELSE CHOOSE r \in {SipBlocks(w, SubSeq(bs, 9, Len(bs))) :
                       w \in {SipCompress(v, WordOfBytes(SubSeq(bs, 1, 8)))}} : TRUE

\* the last word: the bytes left over, and the length's low byte on top
SipLastWord(bs) ==
    LET n == Len(bs)
        t == WordOfBytes(SubSeq(bs, n - (n % 8) + 1, n))
    IN  <<t[1], t[2], t[3], t[4] + 256 * (n % 256)>>

SipFold(y) == Xor64(Xor64(y[1], y[2]), Xor64(y[3], y[4]))

\* v2 ^= 0xff, three d-rounds, v0 ^ v1 ^ v2 ^ v3
SipFinalizeIn(v) == <<v[1], v[2], Xor64(v[3], <<255, 0, 0, 0>>), v[4]>>

SipFinalize(v) ==
    CHOOSE r \in {SipFold(y) : y \in {SipRound(SipRound(SipRound(SipFinalizeIn(v))))}} : TRUE

\* Hasher::finish over the bytes written so far
SipFinish(bs) ==
    CHOOSE r \in {SipFinalize(w) :
                  w \in {SipCompress(v, SipLastWord(bs)) : v \in {SipBlocks(SipInit, bs)}}} : TRUE

(***************************************************************************)
(* std::time::Duration as used for the minimum lease TTL: whole seconds    *)
(* and a nanosecond part below NANOS_PER_SEC.                              *)
(***************************************************************************)
NANOS_PER_SEC == 1000000000

Duration(s, n) == [secs |-> s, nanos |-> n]

DurationAdd(a, b) ==
    LET n == a.nanos + b.nanos
    IN  Duration(a.secs + b.secs + (n \div NANOS_PER_SEC), n % NANOS_PER_SEC)

\* Duration * u32 (and u32 * Duration).  The product of the nanosecond part
\* is carried into the seconds one addend at a time, which is the value the
\* 64-bit product total_nanos / NANOS_PER_SEC, total_nanos % NANOS_PER_SEC gives.
RECURSIVE DurationMul(_, _)
DurationMul(d, k) ==
    IF k = 0 THEN Duration(0, 0) ELSE DurationAdd(DurationMul(d, k - 1), d)

\* Duration / u32: truncates at nanosecond resolution
DurationDiv(d, k) ==
    LET secs        == d.secs \div k
        extra_secs  == d.secs % k
        nanos       == d.nanos \div k
        extra_nanos == d.nanos % k
    IN  Duration(secs, nanos + ((extra_secs * NANOS_PER_SEC + extra_nanos) \div k))

\* 3 * heartbeat_interval * candidate_timeout_ticks / 2
MinTtl(heartbeat_interval, candidate_timeout_ticks) ==
    DurationDiv(DurationMul(DurationMul(heartbeat_interval, 3),
                            candidate_timeout_ticks), 2)

\* min_ttl.as_secs().overflow_add((min_ttl.subsec_nanos() > 0).cast())
MinTtlSecs(heartbeat_interval, candidate_timeout_ticks) ==
    LET min_ttl == MinTtl(heartbeat_interval, candidate_timeout_ticks)
    IN  min_ttl.secs + (IF min_ttl.nanos > 0 THEN 1 ELSE 0)

(***************************************************************************)
(* Identity derivation.  Strings that are hashed are byte sequences; the   *)
(* member map is a function from member names to URLs, and iterating it    *)
(* (HashMap::values) visits its keys in an order the map's hasher seeds    *)
(* decide: any enumeration of the keys.                                    *)
(***************************************************************************)
EmptyStr == <<>>

ZeroWord == <<0, 0, 0, 0>>

RECURSIVE Concat(_)
Concat(ss) == IF ss = <<>> THEN <<>> ELSE Head(ss) \o Concat(Tail(ss))

IterOrders(m) ==
    {o \in [1..Cardinality(DOMAIN m) -> DOMAIN m] :
        \A i, j \in DOMAIN o : i # j => o[i] # o[j]}

\* hasher.write(peer_url); hasher.write(cluster_name); hasher.write_u64(now)
calc_member_id(peer_url, cluster_name, now) ==
    SipFinish(peer_url \o cluster_name \o BytesOfU64(now))

\* for id in member_urls { hasher.write(id) }; hasher.write(cluster_name)
calc_cluster_id(member_urls, cluster_name) ==
    SipFinish(Concat(member_urls) \o cluster_name)

\* all_members.values() collected in the map's iteration order
ValuesInOrder(all_members, order) ==
    [i \in 1..Len(order) |-> all_members[order[i]]]

peer_urls(all_members, order) == ValuesInOrder(all_members, order)

NoGenerator(why) ==
    [panicked |-> TRUE, reason |-> why, member_id |-> ZeroWord, cluster_id |-> ZeroWord]

\* construct_generator with the lookup of the node's own URL defaulted
\* (unwrap_or_default) instead of panicking
construct_generator_default_url(name, all_members, order, clock) ==
    IF ~clock.ok THEN NoGenerator("SystemTime before UNIX EPOCH")
    ELSE [panicked   |-> FALSE,
          reason     |-> "",
          member_id  |-> calc_member_id(IF name \in DOMAIN all_members
                                        THEN all_members[name] ELSE EmptyStr,
                                        EmptyStr, clock.secs),
          cluster_id |-> calc_cluster_id(peer_urls(all_members, order), EmptyStr)]

\* clock is SystemTime::now().duration_since(UNIX_EPOCH): Ok(secs) or Err
construct_generator(name, all_members, order, clock) ==
    IF name \notin DOMAIN all_members THEN NoGenerator("peer not found in peers")
    ELSE IF ~clock.ok THEN NoGenerator("SystemTime before UNIX EPOCH")
    ELSE [panicked   |-> FALSE,
          reason     |-> "",
          member_id  |-> calc_member_id(all_members[name], EmptyStr, clock.secs),
          cluster_id |-> calc_cluster_id(peer_urls(all_members, order), EmptyStr)]

(***************************************************************************)
(* Bounds and inputs.                                                      *)
(***************************************************************************)
MaxCalls == 2

NConsumers == 2

Addr1 == <<97, 100, 100, 114, 49>>
Addr2 == <<97, 100, 100, 114, 50>>
Addr3 == <<97, 100, 100, 114, 51>>

Members2 == ("A" :> Addr1) @@ ("B" :> Addr2)
Members3 == ("A" :> Addr1) @@ ("B" :> Addr2) @@ ("C" :> Addr3)

NodeNames == {"A", "C"}

Epoch1 == 1700000000
Epoch2 == 1700000001

ClockOk(t) == [ok |-> TRUE, secs |-> t]
ClockBeforeEpoch == [ok |-> FALSE, secs |-> 0]

StorageConfigs == {"Memory", "RocksDB"}

CurpConfigs == {[heartbeat_interval |-> Duration(0, 150000000), candidate_timeout_ticks |-> 5]}

Consumers == 1..NConsumers

\* usize::MAX, the argument of notify in Drop: more than any number of listeners
UsizeMax == 2147483647

(***************************************************************************)
(* State.                                                                  *)
(*   server    the XlineServer value new() returned (or the panic it ended *)
(*             in), with the inputs it was built from                      *)
(*   heap      the kind of every object allocated so far, by instance id   *)
(*   refs      the references between objects: <<owner, field, target>>,   *)
(*             owner Self for the XlineServer struct's own fields          *)
(*   call      the current (or last) call of start /                       *)
(*             start_from_listener_shutdown, ncalls how many were made     *)
(*   recovered how many recoveries each storage engine has completed       *)
(*   trigger   the shutdown Event: its registered listeners, those already *)
(*             notified, and how often notify was called                   *)
(*   consumers the background consumers that listen on the trigger         *)
(*   ttl       one evaluation of the minimum lease TTL: its inputs and,    *)
(*             once computed, the seconds handed to the lease collection   *)
(*   nodes     the identity each node of a deployment derived, with the    *)
(*             inputs it derived it from                                   *)
(*   storage   the apply indexes whose commands' effects are in local      *)
(*             storage; exec, the apply path's position                    *)
(*   index_barrier, id_barrier  the two barriers                           *)
(*   waiters   the request handlers that wait on a barrier                 *)
(***************************************************************************)
VARIABLES server, heap, refs, call, ncalls, recovered, trigger, consumers,
          ttl, nodes, storage, exec, index_barrier, id_barrier, waiters

lifeVars == <<server, heap, refs, call, ncalls, recovered, trigger, consumers>>

barrierVars == <<storage, exec, index_barrier, id_barrier, waiters>>

vars == <<lifeVars, ttl, nodes, barrierVars>>

Self == 0

NoServer ==
    [phase |-> "none", id |-> "", is_leader |-> FALSE, all_members |-> <<>>,
     storage_cfg |-> "Memory", clock |-> ClockBeforeEpoch,
     generator |-> NoGenerator(""), min_ttl_secs |-> 0]

NoResult == [tag |-> "none", from |-> ""]

NoCall ==
    [kind |-> "none", pc |-> "idle", step |-> 0, log |-> <<>>, listener |-> "none",
     accepted |-> FALSE, result |-> NoResult, base |-> 0,
     others |-> <<>>, address |-> <<>>, snapshot_allocator |-> ""]

\* the objects new() allocates, in allocation order (lines 123-167)
NewKinds ==
    <<"HeaderGenerator", "Revision", "IdGenerator", "AuthRevision", "CurpConfig",
      "LeaseCollection", "Index", "KvUpdateChannel", "KvStore", "LeaseStore",
      "AuthStore", "ShutdownTrigger", "KvWatcher", "Client", "IndexBarrier",
      "IdBarrier">>

\* the objects init_servers() allocates, in allocation order (lines 337-417)
InitKinds ==
    <<"CommandExecutor", "State", "CurpServer", "KvServer", "LockServer",
      "LeaseServer", "AuthServer", "WatchServer", "MaintenanceServer">>

Pos(kinds, kind) == CHOOSE i \in 1..Len(kinds) : kinds[i] = kind

\* the target of owner's field
Ref(rs, owner, field) == CHOOSE t \in 1..Len(heap) + Len(NewKinds) + Len(InitKinds) :
                             <<owner, field, t>> \in rs

Fields(owner, fs) == {<<owner, f[1], f[2]>> : f \in fs}

\* the references new() sets up among the objects it allocates at base+1..
NewRefs(base, persistent) ==
    LET O(kind) == base + Pos(NewKinds, kind)
    IN  Fields(O("HeaderGenerator"), {<<"revision", O("Revision")>>})
        \cup Fields(O("KvStore"),
               {<<"kv_update_tx", O("KvUpdateChannel")>>,
                <<"lease_collection", O("LeaseCollection")>>,
                <<"header_gen", O("HeaderGenerator")>>,
                <<"persistent", persistent>>,
                <<"index", O("Index")>>})
        \cup Fields(O("LeaseStore"),
               {<<"lease_collection", O("LeaseCollection")>>,
                <<"header_gen", O("HeaderGenerator")>>,
                <<"persistent", persistent>>,
                <<"index", O("Index")>>,
                <<"kv_update_tx", O("KvUpdateChannel")>>})
        \cup Fields(O("AuthStore"),
               {<<"lease_collection", O("LeaseCollection")>>,
                <<"header_gen", O("HeaderGenerator")>>,
                <<"persistent", persistent>>,
                <<"auth_revision", O("AuthRevision")>>})
        \cup Fields(O("KvWatcher"),
               {<<"kv_storage", O("KvStore")>>,
                <<"kv_update_rx", O("KvUpdateChannel")>>,
                <<"shutdown_trigger", O("ShutdownTrigger")>>})
        \cup Fields(Self,
               {<<"kv_storage", O("KvStore")>>,
                <<"auth_storage", O("AuthStore")>>,
                <<"lease_storage", O("LeaseStore")>>,
                <<"watcher", O("KvWatcher")>>,
                <<"persistent", persistent>>,
                <<"client", O("Client")>>,
                <<"curp_cfg", O("CurpConfig")>>,
                <<"id_gen", O("IdGenerator")>>,
                <<"header_gen", O("HeaderGenerator")>>,
                <<"auth_revision", O("AuthRevision")>>,
                <<"index_barrier", O("IndexBarrier")>>,
                <<"id_barrier", O("IdBarrier")>>,
                <<"shutdown_trigger", O("ShutdownTrigger")>>})

(***************************************************************************)
(* XlineServer::new.  A panic in construct_generator leaves no server.     *)
(***************************************************************************)
New ==
    /\ server.phase = "none"
    /\ \E name \in NodeNames, all_members \in {Members2, Members3},
          is_leader \in BOOLEAN, storage_config \in StorageConfigs,
          curp_config \in CurpConfigs,
          clock \in {ClockOk(Epoch1), ClockBeforeEpoch} :
         \E order \in IterOrders(all_members) :
           LET gen == construct_generator(name, all_members, order, clock)
               inputs == [NoServer EXCEPT !.id = name, !.is_leader = is_leader,
                                          !.all_members = all_members,
                                          !.storage_cfg = storage_config,
                                          !.clock = clock]
           IN  IF gen.panicked
               THEN /\ server' = [inputs EXCEPT !.phase = "panicked", !.generator = gen]
                    /\ UNCHANGED <<heap, refs>>
               ELSE /\ server' = [inputs EXCEPT
                          !.phase = "live",
                          !.generator = gen,
                          !.min_ttl_secs = MinTtlSecs(curp_config.heartbeat_interval,
                                                      curp_config.candidate_timeout_ticks)]
                    /\ heap' = heap \o NewKinds
                    /\ refs' = refs \cup NewRefs(Len(heap), 1)
    /\ UNCHANGED <<call, ncalls, recovered, trigger, consumers>>
    /\ UNCHANGED <<ttl, nodes, barrierVars>>

(***************************************************************************)
(* start and start_from_listener_shutdown.  Both run the same steps: the   *)
(* three recoveries in program order, each ending the call on an error     *)
(* (the ? operator), then init_servers, then serving.  start binds the     *)
(* address itself inside serve(addr); start_from_listener_shutdown is      *)
(* handed a tokio TcpListener, which is a socket already bound.            *)
(***************************************************************************)
\* the recoveries with the first two lines swapped
RecoveryOrderKvFirst == <<"kv", "lease", "auth">>

\* self.lease_storage.recover()?; self.kv_storage.recover()?; self.auth_storage.recover()?
RecoveryOrder == <<"lease", "kv", "auth">>

CallEntry(kind) ==
    [NoCall EXCEPT !.kind = kind, !.pc = "recover", !.step = 1,
                   !.listener = IF kind = "start" THEN "unbound" ELSE "bound"]

Start ==
    /\ server.phase = "live"
    /\ call.pc \in {"idle", "done"}
    /\ ncalls < MaxCalls
    /\ call' = CallEntry("start")
    /\ ncalls' = ncalls + 1
    /\ UNCHANGED <<server, heap, refs, recovered, trigger, consumers>>
    /\ UNCHANGED <<ttl, nodes, barrierVars>>

StartFromListenerShutdown ==
    /\ server.phase = "live"
    /\ call.pc \in {"idle", "done"}
    /\ ncalls < MaxCalls
    /\ call' = CallEntry("start_from_listener_shutdown")
    /\ ncalls' = ncalls + 1
    /\ UNCHANGED <<server, heap, refs, recovered, trigger, consumers>>
    /\ UNCHANGED <<ttl, nodes, barrierVars>>

\* the recovery's result dropped instead of propagated (no ? operator)
AfterRecoverIgnoringErr(c, store, ok) ==
    LET logged == [c EXCEPT !.log = Append(@, [op |-> store, ok |-> ok])]
    IN  IF c.step < Len(RecoveryOrder)
        THEN [logged EXCEPT !.step = @ + 1]
        ELSE [logged EXCEPT !.pc = "init"]

\* what the call does after a recovery step returned: Err ends it, Ok moves on
AfterRecover(c, store, ok) ==
    LET logged == [c EXCEPT !.log = Append(@, [op |-> store, ok |-> ok])]
    IN  IF ~ok
        THEN [logged EXCEPT !.pc = "done", !.result = [tag |-> "Err", from |-> store]]
        ELSE IF c.step < Len(RecoveryOrder)
             THEN [logged EXCEPT !.step = @ + 1]
             ELSE [logged EXCEPT !.pc = "init"]

\* one storage engine's recover(), whose outcome the persisted state decides
Recover ==
    /\ call.pc = "recover"
    /\ \E ok \in BOOLEAN :
         LET store == RecoveryOrder[call.step]
         IN  /\ call' = AfterRecover(call, store, ok)
             /\ recovered' = IF ok THEN [recovered EXCEPT ![store] = @ + 1]
                                   ELSE recovered
    /\ UNCHANGED <<server, heap, refs, ncalls, trigger, consumers>>
    /\ UNCHANGED <<ttl, nodes, barrierVars>>

\* the references init_servers() hands to the objects it allocates at base+1..,
\* every one an Arc::clone of a field of self (rs holds self's references)
ComposedRefs(base, rs) ==
    LET O(kind) == base + Pos(InitKinds, kind)
        S(field) == Ref(rs, Self, field)
    IN  Fields(O("CommandExecutor"),
               {<<"kv_storage", S("kv_storage")>>,
                <<"auth_storage", S("auth_storage")>>,
                <<"lease_storage", S("lease_storage")>>,
                <<"persistent", S("persistent")>>,
                <<"index_barrier", S("index_barrier")>>,
                <<"id_barrier", S("id_barrier")>>,
                <<"general_rev", Ref(rs, S("header_gen"), "revision")>>,
                <<"auth_revision", S("auth_revision")>>})
        \cup Fields(O("State"), {<<"lease_storage", S("lease_storage")>>})
        \cup Fields(O("CurpServer"),
               {<<"cmd_executor", O("CommandExecutor")>>,
                <<"state", O("State")>>,
                <<"curp_cfg", S("curp_cfg")>>})
        \cup Fields(O("KvServer"),
               {<<"kv_storage", S("kv_storage")>>,
                <<"auth_storage", S("auth_storage")>>,
                <<"index_barrier", S("index_barrier")>>,
                <<"id_barrier", S("id_barrier")>>,
                <<"client", S("client")>>})
        \cup Fields(O("LockServer"),
               {<<"client", S("client")>>,
                <<"id_gen", S("id_gen")>>})
        \cup Fields(O("LeaseServer"),
               {<<"lease_storage", S("lease_storage")>>,
                <<"auth_storage", S("auth_storage")>>,
                <<"client", S("client")>>,
                <<"id_gen", S("id_gen")>>})
        \cup Fields(O("AuthServer"),
               {<<"auth_storage", S("auth_storage")>>,
                <<"client", S("client")>>})
        \cup Fields(O("WatchServer"),
               {<<"watcher", S("watcher")>>,
                <<"header_gen", S("header_gen")>>})
        \cup Fields(O("MaintenanceServer"),
               {<<"persistent", S("persistent")>>,
                <<"header_gen", S("header_gen")>>})

\* init_servers() giving the key-value handler an index barrier of its own
\* (IndexBarrier::new()) instead of a clone of self.index_barrier
init_servers_own_barrier(base, rs) ==
    LET kv    == base + Pos(InitKinds, "KvServer")
        fresh == base + Len(InitKinds) + 1
    IN  [kinds |-> Append(InitKinds, "IndexBarrier"),
         refs  |-> {r \in ComposedRefs(base, rs) : ~(r[1] = kv /\ r[2] = "index_barrier")}
                   \cup {<<kv, "index_barrier", fresh>>}]

\* what init_servers() allocates and how it wires it
init_servers(base, rs) == [kinds |-> InitKinds, refs |-> ComposedRefs(base, rs)]

\* all_members without self.id
Others(id, all_members) ==
    [k \in (DOMAIN all_members) \ {id} |-> all_members[k]]

SnapshotAllocator(storage_cfg) ==
    CASE storage_cfg = "Memory" -> "MemorySnapshotAllocator"
      [] storage_cfg = "RocksDB" -> "RocksSnapshotAllocator"
      [] OTHER -> "unimplemented"

InitServers ==
    /\ call.pc = "init"
    /\ LET made == init_servers(Len(heap), refs)
           alloc == SnapshotAllocator(server.storage_cfg)
       IN  IF server.id \notin DOMAIN server.all_members \/ alloc = "unimplemented"
           THEN /\ call' = [call EXCEPT !.pc = "done",
                                        !.result = [tag |-> "Panic", from |-> "init_servers"]]
                /\ UNCHANGED <<heap, refs>>
           ELSE /\ call' = [call EXCEPT
                      !.pc = "serve",
                      !.log = Append(@, [op |-> "init_servers", ok |-> TRUE]),
                      !.base = Len(heap),
                      !.others = Others(server.id, server.all_members),
                      !.address = server.all_members[server.id],
                      !.snapshot_allocator = alloc]
                /\ heap' = heap \o made.kinds
                /\ refs' = refs \cup made.refs
    /\ UNCHANGED <<server, ncalls, recovered, trigger, consumers>>
    /\ UNCHANGED <<ttl, nodes, barrierVars>>

\* Server::builder()...serve(addr) / serve_with_incoming_shutdown(listener, signal):
\* serve(addr) binds the address first, which the system may refuse
Serve ==
    /\ call.pc = "serve"
    /\ \E bound \in (IF call.kind = "start" THEN BOOLEAN ELSE {TRUE}) :
         call' = IF bound
                 THEN [call EXCEPT !.pc = "serving", !.listener = "serving",
                                   !.log = Append(@, [op |-> "serve", ok |-> TRUE])]
                 ELSE [call EXCEPT !.pc = "done",
                                   !.log = Append(@, [op |-> "serve", ok |-> FALSE]),
                                   !.result = [tag |-> "Err", from |-> "serve"]]
    /\ UNCHANGED <<server, heap, refs, ncalls, recovered, trigger, consumers>>
    /\ UNCHANGED <<ttl, nodes, barrierVars>>

\* the serving node answers a request
ServeRequest ==
    /\ call.pc = "serving"
    /\ ~call.accepted
    /\ call' = [call EXCEPT !.accepted = TRUE]
    /\ UNCHANGED <<server, heap, refs, ncalls, recovered, trigger, consumers>>
    /\ UNCHANGED <<ttl, nodes, barrierVars>>

\* serving ends: the listener failed, or (start_from_listener_shutdown) the
\* shutdown signal completed
ServeReturn ==
    /\ call.pc = "serving"
    /\ \E r \in (IF call.kind = "start"
                 THEN {[tag |-> "Err", from |-> "serve"]}
                 ELSE {[tag |-> "Ok", from |-> ""], [tag |-> "Err", from |-> "serve"]}) :
         call' = [call EXCEPT !.pc = "done", !.listener = "closed", !.result = r]
    /\ UNCHANGED <<server, heap, refs, ncalls, recovered, trigger, consumers>>
    /\ UNCHANGED <<ttl, nodes, barrierVars>>

(***************************************************************************)
(* The shutdown trigger (event_listener::Event) and its consumers.         *)
(***************************************************************************)
Min(a, b) == IF a <= b THEN a ELSE b

\* Event::notify(n): makes sure at least n of the registered listeners are
\* notified, the earliest registered first; a notified listener is not
\* notified again
EventNotify(ev, n) ==
    LET Pending(k) == k \notin ev.notified
        pending == SelectSeq(ev.listeners, Pending)
        already == Cardinality(ev.notified)
        need    == IF n > already THEN n - already ELSE 0
        woken   == {pending[i] : i \in 1..Min(need, Len(pending))}
    IN  [ev EXCEPT !.notified = @ \cup woken, !.notify_calls = @ + 1]

\* a background consumer (the watch-delivery task) starts listening:
\* shutdown_trigger.listen()
Register(k) ==
    /\ server.phase \in {"live", "dropped"}
    /\ consumers[k].st = "idle"
    /\ trigger' = [trigger EXCEPT !.listeners = Append(@, k)]
    /\ consumers' = [consumers EXCEPT ![k].st = "listening",
                                      ![k].late = trigger.notify_calls > 0]
    /\ UNCHANGED <<server, heap, refs, call, ncalls, recovered>>
    /\ UNCHANGED <<ttl, nodes, barrierVars>>

\* notify(1) in place of notify(usize::MAX)
NotifyOnDropOne(ev) == EventNotify(ev, 1)

\* self.shutdown_trigger.notify(usize::MAX)
NotifyOnDrop(ev) == EventNotify(ev, UsizeMax)

\* impl Drop for XlineServer.  The value cannot be dropped while a call of
\* start borrows it.
DropServer ==
    /\ server.phase = "live"
    /\ call.pc \in {"idle", "done"}
    /\ server' = [server EXCEPT !.phase = "dropped"]
    /\ trigger' = NotifyOnDrop(trigger)
    /\ consumers' = [k \in Consumers |->
                       IF k \in trigger'.notified \ trigger.notified
                       THEN [consumers[k] EXCEPT !.st = "notified", !.wakes = @ + 1]
                       ELSE consumers[k]]
    /\ UNCHANGED <<heap, refs, call, ncalls, recovered>>
    /\ UNCHANGED <<ttl, nodes, barrierVars>>

LifeInit ==
    /\ server = NoServer
    /\ heap = <<"Persistent">>
    /\ refs = {}
    /\ call = NoCall
    /\ ncalls = 0
    /\ recovered = [s \in {"lease", "kv", "auth"} |-> 0]
    /\ trigger = [listeners |-> <<>>, notified |-> {}, notify_calls |-> 0]
    /\ consumers = [k \in Consumers |-> [st |-> "idle", wakes |-> 0, late |-> FALSE]]

(***************************************************************************)
(* The minimum lease TTL as a function of the consensus timing: the inputs *)
(* are drawn at the start and new()'s computation is applied to them.      *)
(***************************************************************************)
MaxHeartbeatSecs == 1

MaxTicks == 5

NanosChoices == {0, 1, 150000000, 333333333, 500000000, 666666667, 999999999}

HeartbeatChoices ==
    {Duration(sec, n) : sec \in 0..MaxHeartbeatSecs, n \in NanosChoices}

NoTtl == [heartbeat_interval |-> Duration(0, 0), candidate_timeout_ticks |-> 0,
          computed |-> FALSE, min_ttl_secs |-> 0]

TtlInit ==
    ttl \in {[NoTtl EXCEPT !.heartbeat_interval = h, !.candidate_timeout_ticks = t] :
                h \in HeartbeatChoices, t \in 0..MaxTicks}

ComputeMinTtl ==
    /\ ~ttl.computed
    /\ ttl' = [ttl EXCEPT !.computed = TRUE,
                          !.min_ttl_secs = MinTtlSecs(ttl.heartbeat_interval,
                                                      ttl.candidate_timeout_ticks)]
    /\ UNCHANGED <<lifeVars, nodes, barrierVars>>

(***************************************************************************)
(* Identity derivation by the nodes of a deployment: each node runs        *)
(* construct_generator on its own copy of the member map, at its own       *)
(* clock reading, its map iterating in its own order.                      *)
(***************************************************************************)
NNodes == 2

Nodes == 1..NNodes

NoDerivation ==
    [done |-> FALSE, name |-> "", all_members |-> <<>>, clock |-> ClockBeforeEpoch,
     order |-> <<>>, generator |-> NoGenerator("")]

IdentInit == nodes = [n \in Nodes |-> NoDerivation]

Derive(n) ==
    /\ ~nodes[n].done
    /\ \E name \in NodeNames, all_members \in {Members2, Members3},
          clock \in {ClockOk(Epoch1), ClockOk(Epoch2), ClockBeforeEpoch} :
         \E order \in IterOrders(all_members) :
           nodes' = [nodes EXCEPT ![n] =
                        [done |-> TRUE, name |-> name, all_members |-> all_members,
                         clock |-> clock, order |-> order,
                         generator |-> construct_generator(name, all_members, order, clock)]]
    /\ UNCHANGED <<lifeVars, ttl, barrierVars>>

(***************************************************************************)
(* The index barrier and the id barrier, shared by the command executor    *)
(* (which triggers them from the single apply path) and the key-value      *)
(* handler (whose requests wait on them).                                  *)
(***************************************************************************)
MaxIndex == 3

NWaiters == 2

Waiters == 1..NWaiters

\* the proposal id of the command committed at apply index i
ProposeId(i) == <<"propose", i>>

NoWaiter ==
    [st |-> "idle", kind |-> "none", index |-> 0, id |-> <<>>,
     immediate |-> FALSE, seen |-> {}]

BarrierInit ==
    /\ storage = {}
    /\ exec = [pc |-> "apply", index |-> 1]
    /\ index_barrier = [last_trigger_index |-> 0, waiting |-> {}]
    /\ id_barrier = [triggered |-> {}, waiting |-> {}]
    /\ waiters = [w \in Waiters |-> NoWaiter]

\* the apply path makes the effects of the command at exec.index visible
Apply ==
    /\ exec.pc = "apply"
    /\ exec.index <= MaxIndex
    /\ storage' = storage \cup {exec.index}
    /\ exec' = [exec EXCEPT !.pc = "trigger_id"]
    /\ UNCHANGED <<index_barrier, id_barrier, waiters>>
    /\ UNCHANGED <<lifeVars, ttl, nodes>>

\* the waiters a trigger wakes: those registered on that very id
IdWoken(b, id) == {e \in b.waiting : e[1] = id}

\* id_barrier.trigger(id), after the command's effects are visible
TriggerId ==
    /\ exec.pc = "trigger_id"
    /\ LET id == ProposeId(exec.index)
           woken == IdWoken(id_barrier, id)
       IN  /\ id_barrier' = [triggered |-> id_barrier.triggered \cup {id},
                             waiting |-> id_barrier.waiting \ woken]
           /\ waiters' = [w \in Waiters |->
                            IF \E e \in woken : e[2] = w
                            THEN [waiters[w] EXCEPT !.st = "notified"]
                            ELSE waiters[w]]
    /\ exec' = [exec EXCEPT !.pc = "trigger_index"]
    /\ UNCHANGED <<storage, index_barrier>>
    /\ UNCHANGED <<lifeVars, ttl, nodes>>

\* a trigger that also wakes the waiters of the next index
IndexWokenOneAhead(b, idx) == {e \in b.waiting : e[1] <= idx + 1}

\* the waiters a trigger wakes: those registered on an index reached or passed
IndexWoken(b, idx) == {e \in b.waiting : e[1] <= idx}

\* index_barrier.trigger(idx), after the command's effects are visible
TriggerIndex ==
    /\ exec.pc = "trigger_index"
    /\ LET woken == IndexWoken(index_barrier, exec.index)
       IN  /\ index_barrier' = [last_trigger_index |-> exec.index,
                                waiting |-> index_barrier.waiting \ woken]
           /\ waiters' = [w \in Waiters |->
                            IF \E e \in woken : e[2] = w
                            THEN [waiters[w] EXCEPT !.st = "notified"]
                            ELSE waiters[w]]
    /\ exec' = [pc |-> "apply", index |-> exec.index + 1]
    /\ UNCHANGED <<storage, id_barrier>>
    /\ UNCHANGED <<lifeVars, ttl, nodes>>

\* wait_for_index without the "already past" check: it always registers
IndexNeverPast(b, idx) == FALSE

\* the "already past" checks, made under the lock the trigger path takes
IndexAlreadyPast(b, idx) == idx <= b.last_trigger_index

IdAlreadyPast(b, id) == id \in b.triggered

\* wait_for_index(idx): returns at once when apply has reached or passed
\* idx, registers and suspends otherwise
WaitForIndex(w, idx) ==
    /\ waiters[w].st = "idle"
    /\ IF IndexAlreadyPast(index_barrier, idx)
       THEN /\ waiters' = [waiters EXCEPT ![w] =
                  [NoWaiter EXCEPT !.st = "resumed", !.kind = "index", !.index = idx,
                                   !.immediate = TRUE, !.seen = storage]]
            /\ UNCHANGED index_barrier
       ELSE /\ waiters' = [waiters EXCEPT ![w] =
                  [NoWaiter EXCEPT !.st = "suspended", !.kind = "index", !.index = idx]]
            /\ index_barrier' = [index_barrier EXCEPT !.waiting = @ \cup {<<idx, w>>}]
    /\ UNCHANGED <<storage, exec, id_barrier>>
    /\ UNCHANGED <<lifeVars, ttl, nodes>>

\* wait_for_id(id): the same, keyed by proposal id
WaitForId(w, id) ==
    /\ waiters[w].st = "idle"
    /\ IF IdAlreadyPast(id_barrier, id)
       THEN /\ waiters' = [waiters EXCEPT ![w] =
                  [NoWaiter EXCEPT !.st = "resumed", !.kind = "id", !.id = id,
                                   !.immediate = TRUE, !.seen = storage]]
            /\ UNCHANGED id_barrier
       ELSE /\ waiters' = [waiters EXCEPT ![w] =
                  [NoWaiter EXCEPT !.st = "suspended", !.kind = "id", !.id = id]]
            /\ id_barrier' = [id_barrier EXCEPT !.waiting = @ \cup {<<id, w>>}]
    /\ UNCHANGED <<storage, exec, index_barrier>>
    /\ UNCHANGED <<lifeVars, ttl, nodes>>

\* a woken waiter's task runs again and reads local storage
Resume(w) ==
    /\ waiters[w].st = "notified"
    /\ waiters' = [waiters EXCEPT ![w].st = "resumed", ![w].seen = storage]
    /\ UNCHANGED <<storage, exec, index_barrier, id_barrier>>
    /\ UNCHANGED <<lifeVars, ttl, nodes>>

\* the caller's deadline passes: the wait is dropped and its registration
\* removed
CancelWait(w) ==
    /\ waiters[w].st = "suspended"
    /\ waiters' = [waiters EXCEPT ![w].st = "cancelled"]
    /\ index_barrier' = [index_barrier EXCEPT !.waiting = {e \in @ : e[2] # w}]
    /\ id_barrier' = [id_barrier EXCEPT !.waiting = {e \in @ : e[2] # w}]
    /\ UNCHANGED <<storage, exec>>
    /\ UNCHANGED <<lifeVars, ttl, nodes>>

(***************************************************************************)
(* Properties.                                                             *)
(***************************************************************************)
StartupOrder == <<"lease", "kv", "auth", "init_servers", "serve">>

Stores == {"lease", "kv", "auth"}

Ops(log) == [i \in 1..Len(log) |-> log[i].op]

IsPrefix(a, b) == Len(a) <= Len(b) /\ \A i \in 1..Len(a) : a[i] = b[i]

\* the three recoveries have run, in order, and each returned Ok
RecoveredAll(c) ==
    /\ Len(c.log) >= 3
    /\ \A i \in 1..3 : c.log[i].op = StartupOrder[i] /\ c.log[i].ok

\* init_servers has run, or the call is serving or has served
Composed(c) ==
    \/ c.pc \in {"init", "serve", "serving"}
    \/ c.base # 0
    \/ c.accepted
    \/ c.listener \in {"serving", "closed"}
    \/ \E i \in 1..Len(c.log) : c.log[i].op \in {"init_servers", "serve"}

RecoveryOrdered(c) ==
    /\ IsPrefix(Ops(c.log), StartupOrder)
    /\ \A i \in 1..Len(c.log) :
         c.log[i].op = "kv" => i > 1 /\ c.log[1].op = "lease" /\ c.log[1].ok
    /\ (c.pc = "recover" /\ c.step = 2) => (Len(c.log) = 1 /\ c.log[1].op = "lease" /\ c.log[1].ok)
    /\ Composed(c) => RecoveredAll(c)

\* C1 (as amended): in every call of start and of
\* start_from_listener_shutdown the recoveries run in the order lease,
\* key-value, auth, each at most once; key-value recovery never begins
\* before lease recovery has completed; all three have returned Ok before
\* init_servers runs and before any request is served; start binds its
\* listener only after them, whereas start_from_listener_shutdown is handed
\* a listener already bound and only starts serving from it after them.
C1_RecoveryOrder ==
    /\ RecoveryOrdered(call)
    /\ (call.kind = "start" /\ call.listener # "unbound") => RecoveredAll(call)
    /\ (call.kind = "start_from_listener_shutdown" /\ call.listener # "bound")
          => RecoveredAll(call)

\* C1 (as stated): ... and all three have completed successfully before the
\* network listener is bound, in start and in start_from_listener_shutdown.
C1_AsStated ==
    /\ RecoveryOrdered(call)
    /\ call.listener \in {"bound", "serving", "closed"} => RecoveredAll(call)

\* a call of start that recovered all three stores, composed its servers,
\* bound its listener and has answered a request
C1_Witness ==
    /\ call.kind = "start"
    /\ call.accepted
    /\ Ops(call.log) = StartupOrder
    /\ recovered["lease"] >= 1 /\ recovered["kv"] >= 1 /\ recovered["auth"] >= 1

FailedRecovery(c, i) ==
    i \in 1..Len(c.log) /\ c.log[i].op \in Stores /\ ~c.log[i].ok

AbortedAt(c, i) ==
    /\ i = Len(c.log)
    /\ \A j \in 1..Len(c.log) : j # i => c.log[j].op # c.log[i].op
    /\ c.pc = "done"
    /\ c.result = [tag |-> "Err", from |-> c.log[i].op]
    /\ c.base = 0
    /\ ~c.accepted
    /\ c.listener \notin {"serving", "closed"}

\* C2 (as amended): if a recovery step returns an error during a call of
\* start or start_from_listener_shutdown, that call returns that error, runs
\* no later recovery step and does not run the failed one again, never
\* calls init_servers and never serves from the listener; in start the
\* listener is never bound, while the listener handed to
\* start_from_listener_shutdown was bound before the call and stays unserved.
C2_FailedRecoveryAborts ==
    \A i \in 1..Len(call.log) :
        FailedRecovery(call, i) =>
            /\ AbortedAt(call, i)
            /\ call.kind = "start" => call.listener = "unbound"
            /\ call.kind = "start_from_listener_shutdown" => call.listener = "bound"

\* C2 (as stated): ... and the listener is never bound or served, in start
\* and in start_from_listener_shutdown.
C2_AsStated ==
    \A i \in 1..Len(call.log) :
        FailedRecovery(call, i) =>
            /\ AbortedAt(call, i)
            /\ call.listener \in {"none", "unbound"}

\* a call whose key-value recovery failed after lease recovery succeeded
C2_Witness ==
    /\ call.pc = "done"
    /\ Len(call.log) = 2
    /\ call.log[1] = [op |-> "lease", ok |-> TRUE]
    /\ call.log[2] = [op |-> "kv", ok |-> FALSE]
    /\ call.result = [tag |-> "Err", from |-> "kv"]

\* exact 3 * h * t, in seconds and nanoseconds
ExactTripleProduct(h, t) == DurationMul(DurationMul(h, 3), t)

\* the whole-second ceiling of half of p
CeilHalfSecs(p) ==
    IF p.secs % 2 = 0
    THEN (p.secs \div 2) + (IF p.nanos > 0 THEN 1 ELSE 0)
    ELSE (p.secs + 1) \div 2

\* m seconds are at least half of p
AtLeastHalf(m, p) == 2 * m > p.secs \/ (2 * m = p.secs /\ p.nanos = 0)

\* C3: for every heartbeat interval h and every candidate_timeout_ticks t,
\* the minimum lease TTL in seconds is at least 1.5 * h * t and equals the
\* whole-second ceiling of the exact value 3 * h * t / 2.
C3_CeilingOfExact ==
    ttl.computed =>
        LET p == ExactTripleProduct(ttl.heartbeat_interval, ttl.candidate_timeout_ticks)
        IN  /\ AtLeastHalf(ttl.min_ttl_secs, p)
            /\ ttl.min_ttl_secs = CeilHalfSecs(p)

NoObjects == heap = <<"Persistent">> /\ refs = {}

HasGenerators ==
    /\ \E i \in DOMAIN heap : heap[i] = "HeaderGenerator"
    /\ \E i \in DOMAIN heap : heap[i] = "IdGenerator"

\* C4 (as amended): identity derivation succeeds for every member map that
\* contains the node's own name when the system clock is not before the
\* Unix epoch, and fails fatally (new() produces no server and no header/id
\* generator) for every member map that does not contain it, and also when
\* the clock reads before the epoch.
C4_IdentityDerivation ==
    server.phase # "none" =>
        /\ (server.phase = "panicked")
              <=> (server.id \notin DOMAIN server.all_members \/ ~server.clock.ok)
        /\ server.phase = "panicked" => (server.generator.panicked /\ NoObjects)
        /\ server.phase # "panicked" => (~server.generator.panicked /\ HasGenerators)

\* C4 (as stated): identity derivation succeeds for every member map that
\* contains the node's own name, and fails fatally for every one that does not.
C4_AsStated ==
    server.phase # "none" =>
        /\ server.id \in DOMAIN server.all_members
              => (server.phase # "panicked" /\ HasGenerators)
        /\ server.id \notin DOMAIN server.all_members
              => (server.phase = "panicked" /\ NoObjects)

\* new() given the name C and the map {A: addr1, B: addr2} has panicked
C4_Witness ==
    /\ server.phase = "panicked"
    /\ server.id = "C"
    /\ server.all_members = Members2
    /\ server.clock.ok

Derived(n) == nodes[n].done /\ ~nodes[n].generator.panicked

\* C5: the cluster_id is invariant to the iteration order of the member
\* map: any two nodes that derive it from the same member map compute the
\* same cluster_id.
C5_ClusterIdOrderInvariant ==
    \A m, n \in Nodes :
        (Derived(m) /\ Derived(n) /\ nodes[m].all_members = nodes[n].all_members)
            => nodes[m].generator.cluster_id = nodes[n].generator.cluster_id

Identity(n) == <<nodes[n].generator.member_id, nodes[n].generator.cluster_id>>

SameNameAndMap(m, n) ==
    /\ nodes[m].name = nodes[n].name
    /\ nodes[m].all_members = nodes[n].all_members

\* C9: identity derivation is deterministic: two derivations with the same
\* name, the same map contents and the same timestamp yield the same
\* (member_id, cluster_id), and two that differ only in the timestamp yield
\* a different identity.
C9_DeterministicIdentity ==
    \A m, n \in Nodes :
        (Derived(m) /\ Derived(n) /\ SameNameAndMap(m, n)) =>
            /\ nodes[m].clock = nodes[n].clock => Identity(m) = Identity(n)
            /\ nodes[m].clock # nodes[n].clock => Identity(m) # Identity(n)

Registered(k) == consumers[k].st # "idle" /\ ~consumers[k].late

\* C6: the shutdown trigger is fired exactly once per server instance, when
\* the server is dropped and at no earlier point, and that firing wakes
\* every consumer registered on it exactly once: none is left unwoken and
\* none is woken twice.
C6_ShutdownOnce ==
    /\ trigger.notify_calls <= 1
    /\ (trigger.notify_calls = 1) <=> (server.phase = "dropped")
    /\ \A k \in Consumers :
         /\ consumers[k].wakes <= 1
         /\ consumers[k].wakes = 1 => (k \in trigger.notified /\ server.phase = "dropped")
         /\ (server.phase = "dropped" /\ Registered(k))
               => (consumers[k].wakes = 1 /\ consumers[k].st = "notified")

\* a server that ran a call of start, was dropped, and whose drop woke every
\* consumer, all of them registered before
C6_Witness ==
    /\ server.phase = "dropped"
    /\ ncalls >= 1
    /\ \A k \in Consumers : Registered(k) /\ consumers[k].wakes = 1

\* C7: no missed wakeup on the barriers: a wait issued after its key was
\* triggered returns immediately, a waiter registered while the trigger is
\* in progress is woken, and no waiter stays suspended on a key that has
\* been triggered.
C7_NoMissedWakeup ==
    \A w \in Waiters :
        /\ (waiters[w].st = "suspended" /\ waiters[w].kind = "index")
              => (waiters[w].index > index_barrier.last_trigger_index
                  /\ <<waiters[w].index, w>> \in index_barrier.waiting)
        /\ (waiters[w].st = "suspended" /\ waiters[w].kind = "id")
              => (waiters[w].id \notin id_barrier.triggered
                  /\ <<waiters[w].id, w>> \in id_barrier.waiting)
        /\ waiters[w].immediate => waiters[w].st = "resumed"

\* one waiter came after its index was triggered and returned at once,
\* another was suspended on its id and has been woken by the trigger
C7_Witness ==
    \E v, w \in Waiters :
        /\ waiters[v].kind = "index" /\ waiters[v].immediate /\ waiters[v].st = "resumed"
        /\ waiters[w].kind = "id" /\ ~waiters[w].immediate /\ waiters[w].st = "resumed"

\* C8: with the triggers issued in increasing order by the single apply
\* path, a waiter on index Ti that has resumed did so no earlier than
\* trigger(Ti), and what it then read from local storage held the effects
\* of every command with apply index <= Ti.
C8_ResumeAfterTrigger ==
    \A w \in Waiters :
        (waiters[w].kind = "index" /\ waiters[w].st \in {"notified", "resumed"}) =>
            /\ waiters[w].index <= index_barrier.last_trigger_index
            /\ waiters[w].st = "resumed" => (1..waiters[w].index) \subseteq waiters[w].seen

\* a waiter registered on index 2 before it fired, suspended, and resumed
C8_Witness ==
    \E w \in Waiters :
        /\ waiters[w].kind = "index"
        /\ waiters[w].index = 2
        /\ ~waiters[w].immediate
        /\ waiters[w].st = "resumed"

SharedFields ==
    {"kv_storage", "auth_storage", "lease_storage", "persistent", "index_barrier",
     "id_barrier", "client", "header_gen", "id_gen", "auth_revision", "watcher",
     "curp_cfg", "shutdown_trigger"}

InstancesOf(kind) == {i \in DOMAIN heap : heap[i] = kind}

SharedKinds ==
    {"KvStore", "LeaseStore", "AuthStore", "HeaderGenerator", "Client",
     "IndexBarrier", "IdBarrier"}

\* C10: the handlers and the command executor that init_servers builds all
\* hold the very instances new() created: the storage engines, the header
\* generator (the executor its revision), the consensus client and the two
\* barriers; the barrier a handler waits on is the one the executor
\* triggers, and repeated calls of start create no second instance.
C10_SharedInstances ==
    /\ \A r \in refs :
         /\ (r[1] # Self /\ r[2] \in SharedFields) => <<Self, r[2], r[3]>> \in refs
         /\ r[2] = "general_rev"
               => \E h \in DOMAIN heap :
                     <<Self, "header_gen", h>> \in refs /\ <<h, "revision", r[3]>> \in refs
    /\ \A f \in SharedFields : Cardinality({r \in refs : r[1] = Self /\ r[2] = f}) <= 1
    /\ \A kind \in SharedKinds :
         Cardinality(InstancesOf(kind)) = (IF server.phase \in {"live", "dropped"} THEN 1 ELSE 0)

\* start was called twice and init_servers ran both times
C10_Witness ==
    /\ ncalls >= 2
    /\ Cardinality(InstancesOf("CommandExecutor")) >= 2
    /\ Cardinality(InstancesOf("KvServer")) >= 2
    /\ call.pc = "serving"

(***************************************************************************)
(* Specifications.                                                         *)
(***************************************************************************)
TtlIdle == ttl = NoTtl

IdentIdle == nodes = [n \in Nodes |-> NoDerivation]

\* the node's life: new, calls of start, teardown
Init == LifeInit /\ TtlIdle /\ IdentIdle /\ BarrierInit

Next ==
    \/ New
    \/ Start
    \/ StartFromListenerShutdown
    \/ Recover
    \/ InitServers
    \/ Serve
    \/ ServeRequest
    \/ ServeReturn
    \/ \E k \in Consumers : Register(k)
    \/ DropServer

Spec == Init /\ [][Next]_vars

\* the minimum lease TTL over its inputs
InitTtl == LifeInit /\ TtlInit /\ IdentIdle /\ BarrierInit

NextTtl == ComputeMinTtl

SpecTtl == InitTtl /\ [][NextTtl]_vars

\* identity derivation by the nodes of one deployment
InitIdent == LifeInit /\ TtlIdle /\ IdentInit /\ BarrierInit

NextIdent == \E n \in Nodes : Derive(n)

SpecIdent == InitIdent /\ [][NextIdent]_vars

\* the barriers between the apply path and the waiting handlers
InitBarrier == LifeInit /\ TtlIdle /\ IdentIdle /\ BarrierInit

NextBarrier ==
    \/ Apply
    \/ TriggerId
    \/ TriggerIndex
    \/ \E w \in Waiters, idx \in 1..MaxIndex : WaitForIndex(w, idx)
    \/ \E w \in Waiters, i \in 1..MaxIndex : WaitForId(w, ProposeId(i))
    \/ \E w \in Waiters : Resume(w)
    \/ \E w \in Waiters : CancelWait(w)

SpecBarrier == InitBarrier /\ [][NextBarrier]_vars
====
